---- MODULE Spec2Model ----
(***************************************************************************)
(* A model of steam/http.py: HTTPClient.request, the login pipeline        *)
(* (login, _send_login_request, _fetch_rsa_params, _send_login,            *)
(* _assert_valid_credentials, _perform_redirects), the trade poller        *)
(* (_poll_trades, _get_trade_offers), accept_user_trade and logout.       *)
(*                                                                         *)
(* Python's None is the string "None"; a coroutine's position is a pc      *)
(* field of its frame; every await is a step boundary.                     *)
(***************************************************************************)
EXTENDS Integers, Sequences, FiniteSets, TLC

\* ------------------------------------------------------------------ bounds
MaxTwoFactor == 1    \* two-factor rounds of one login
MaxUrls == 2         \* transfer urls of one login response
MaxDepth == 2        \* nested _get_trade_offers calls of one fetch
MaxLogins == 1       \* login() calls by the caller on one client
MaxRelogins == 1     \* re-logins by the poller on one client
MaxCalls == 2        \* accept_user_trade calls by the caller
MaxLogouts == 1      \* logout() calls by the caller

\* ------------------------------------------------------- program constants
maximum_repetitions == 5    \* _fetch_rsa_params
RequestTries == 5           \* request: for tries in range(5)
ConfirmTries == 3           \* accept_user_trade: for tries in range(3)

None == "None"

\* Python truthiness of an optional string (None and '' are falsy).
Truthy(s) == s \notin {None, ""}

VARIABLES
  http,      \* the HTTPClient's fields
  supplied,  \* the arguments of the caller's login() call (None before it)
  events,    \* what was handed to client.dispatch, in order
  tasks,     \* tasks created by login() with loop.create_task
  lg,        \* the frame of the login() call in progress
  poll,      \* the frame of the _poll_trades task
  fetch,     \* the frame of the _get_trade_offers call in progress
  rq,        \* the frame of a request() call
  acc,       \* the frame of an accept_user_trade call
  lo         \* the frame of a logout() call

vars == <<http, supplied, events, tasks, lg, poll, fetch, rq, acc, lo>>

\* ---------------------------------------------------------------- request
\* The answers one attempt of request() can get: a status with a body that is
\* or is not the 'Access is denied' text, a transport error raised by
\* session.request, or a body json.loads rejects.
Statuses == {200, 400, 403, 404, 429, 500, 502}

Answers ==
  [kind : {"http"}, status : Statuses, denied : BOOLEAN]
    \cup [kind : {"ClientOSError", "ValueError"}, status : {0}, denied : {FALSE}]

\* A backoff that grows by one second per attempt.
BackoffLinearByOne(tries) == 1 + tries

\* asyncio.sleep(1 + tries * 2)
Backoff(tries) == 1 + tries * 2

rqIdle ==
  [pc |-> "idle", tries |-> 0, attempts |-> 0, sleeps |-> <<>>, seen |-> <<>>,
   result |-> None]

\* What one answer does to the loop of request(), in the order of the code.
AfterAnswer(a, tries) ==
  IF a.kind # "http" THEN [pc |-> "raised", result |-> a.kind]
  ELSE IF a.denied THEN [pc |-> "raised", result |-> "InvalidCredentials"]
  ELSE IF a.status >= 200 /\ a.status < 300 THEN [pc |-> "returned", result |-> "data"]
  ELSE IF a.status = 429 THEN [pc |-> "raised", result |-> "TooManyRequests"]
  ELSE IF a.status \in {500, 502} THEN [pc |-> "sleep", result |-> None]
  ELSE IF a.status = 403 THEN [pc |-> "raised", result |-> "Forbidden"]
  ELSE IF a.status = 404 THEN [pc |-> "raised", result |-> "NotFound"]
  ELSE [pc |-> "raised", result |-> "HTTPException"]

RequestCall ==
  /\ rq.pc = "idle"
  /\ rq' = [rqIdle EXCEPT !.pc = "send"]
  /\ UNCHANGED <<http, supplied, events, tasks, lg, poll, fetch, acc, lo>>

\* One pass of the loop body up to its first await after the response: the
\* request is issued, answered, and the answer is classified.
RequestAttempt ==
  /\ rq.pc = "send"
  /\ \E a \in Answers :
       LET r == AfterAnswer(a, rq.tries) IN
       rq' = [rq EXCEPT !.pc = r.pc,
                        !.result = r.result,
                        !.attempts = @ + 1,
                        !.seen = Append(@, a),
                        !.sleeps = IF r.pc = "sleep"
                                     THEN Append(@, Backoff(rq.tries)) ELSE @]
  /\ UNCHANGED <<http, supplied, events, tasks, lg, poll, fetch, acc, lo>>

\* The sleep returns: continue with the next value of range(5), or leave the
\* loop and raise.
RequestWake ==
  /\ rq.pc = "sleep"
  /\ rq' = IF rq.tries + 1 < RequestTries
             THEN [rq EXCEPT !.pc = "send", !.tries = @ + 1]
             ELSE [rq EXCEPT !.pc = "raised", !.tries = @ + 1,
                             !.result = "HTTPException"]
  /\ UNCHANGED <<http, supplied, events, tasks, lg, poll, fetch, acc, lo>>

RequestNext == RequestCall \/ RequestAttempt \/ RequestWake

\* What a finished request() hands its caller: the response data or one of the
\* exceptions it raises or lets through.
RequestErrors ==
  {"InvalidCredentials", "TooManyRequests", "Forbidden", "NotFound",
   "HTTPException", "ClientOSError", "ValueError"}

\* ----------------------------------------------- trade-offer snapshots
\* A snapshot is what _get_trade_offers returns: the dict offers['response'],
\* kept as its items in iteration order, or None.
Ids == {"123", "456"}
OfferStates == {2, 3}

Dicts ==
  {s \in UNION {[1..n -> Ids \X OfferStates] : n \in 0..Cardinality(Ids)} :
     \A i, j \in DOMAIN s : i # j => s[i][1] # s[j][1]}

Dict(s) == [none |-> FALSE, items |-> s]
NoneValue == [none |-> TRUE, items |-> <<>>]

Keys(d) == {d.items[i][1] : i \in DOMAIN d.items}
Lookup(d, k) == d.items[CHOOSE i \in DOMAIN d.items : d.items[i][1] = k][2]

\* Python's == on two of these values: dicts are equal as mappings, whatever
\* their order; None equals only None.
PyEq(a, b) ==
  /\ a.none = b.none
  /\ {a.items[i] : i \in DOMAIN a.items} = {b.items[i] : i \in DOMAIN b.items}

Min(a, b) == IF a < b THEN a ELSE b

\* zip(trades_cache, trades): the keys of the two dicts, paired by position.
Zip(a, b) ==
  [i \in 1..Min(Len(a.items), Len(b.items)) |-> <<a.items[i][1], b.items[i][1]>>]

\* Lines 339-345 on the stored and the fetched value. zip() of None raises
\* TypeError. The loop's target rebinds trades_cache to a key, a str, so the
\* first pass of the body evaluates trades_cache[trades_cache], a str indexed
\* by a str, and raises TypeError before anything is dispatched.
PollDiff(cache, trades) ==
  IF PyEq(trades, cache)
    THEN [raised |-> FALSE, out |-> <<>>, cache |-> cache]
    ELSE IF cache.none \/ trades.none
      THEN [raised |-> TRUE, out |-> <<>>, cache |-> cache]
      ELSE IF Len(Zip(cache, trades)) = 0
        THEN [raised |-> FALSE, out |-> <<>>, cache |-> trades]
        ELSE [raised |-> TRUE, out |-> <<>>, cache |-> cache]

pollNone ==
  [pc |-> "none", trades_cache |-> NoneValue, err |-> None, cause |-> None,
   diffed |-> FALSE, A |-> NoneValue, B |-> NoneValue, out |-> <<>>]

fetchIdle ==
  [pc |-> "idle", depth |-> 0, got |-> NoneValue, ret |-> NoneValue,
   relogged |-> FALSE]

\* ------------------------------------------------------------------ login
\* Values the caller can supply to login(); shared_secret and identity_secret
\* are optional.
Usernames == {"user"}
Passwords == {"pw"}
ApiKeys == {"key"}
SharedSecrets == {None, "shared"}
IdentitySecrets == {None, "identity"}

\* What code() can return: generate_one_time_code(shared_secret), which depends
\* on the time, or the text typed at the prompt.
Codes == {"code1", "code2"}

\* Session tokens the home page can carry in g_sessionID.
Tokens == {"sid1", "sid2"}

Credentials ==
  [username : Usernames, password : Passwords, api_key : ApiKeys,
   shared_secret : SharedSecrets, identity_secret : IdentitySecrets]

\* The fields of the dologin response the code reads. requires_twofactor is
\* "True", "False" or "missing" (the key is absent); captcha_needed says
\* whether the key is present ('captcha_needed' in login_response.keys()).
LoginResponses ==
  [requires_twofactor : {"True", "False", "missing"},
   captcha_needed : BOOLEAN,
   success : BOOLEAN,
   has_params : BOOLEAN,
   n_urls : 0..MaxUrls]

NoResponse ==
  [requires_twofactor |-> "missing", captcha_needed |-> FALSE,
   success |-> FALSE, has_params |-> FALSE, n_urls |-> 0]

\* What a request() call, or a bare session.get, can end with. A closed
\* aiohttp session raises RuntimeError on every use.
Outcomes(closed) == IF closed THEN {"RuntimeError"} ELSE {"data"} \cup RequestErrors

\* The fields of a dologin request the claims are about.
NoSubmission == [rsatimestamp |-> 0, twofactorcode |-> None]

lgIdle ==
  [pc |-> "idle", by |-> None, calls |-> 0, relogins |-> 0,
   current_repetitions |-> 0, depth |-> 0,
   keyRequests |-> 0, keyFetches |-> 0, submissions |-> 0,
   login_response |-> NoResponse, url |-> 0, err |-> None, origin |-> None,
   captchaSeen |-> FALSE, afterCaptcha |-> 0,
   rsa_timestamp |-> 0,   \* the challenge held: the n-th key received
   submitted |-> NoSubmission, \* the dologin request in flight
   used |-> {},           \* the challenges earlier submissions carried
   obtained |-> None,     \* the code code() returned last in this call
   invalidSeen |-> FALSE, \* a response said success false
   sid_set |-> FALSE,     \* this call has assigned session_id
   posts |-> 0,           \* redirect POSTs of this call that succeeded
   redirected |-> FALSE,  \* _perform_redirects has returned
   dispatched |-> 0,      \* 'login' dispatches of this call
   created |-> 0]         \* tasks this call created

LoginRunning == lg.pc \in {"rsa", "dologin", "home", "redirect", "profile"}

\* A request is issued after a response that contained captcha_needed.
CountAfterCaptcha(f) ==
  IF f.captchaSeen THEN [f EXCEPT !.afterCaptcha = @ + 1] ELSE f

\* login() up to its first await: the five assignments, then
\* _send_login_request -> _fetch_rsa_params(0) -> request('POST', getrsakey).
LoginEnter(o, c) ==
  /\ http' = [http EXCEPT !.username = c.username,
                          !.password = c.password,
                          !.api_key = c.api_key,
                          !.shared_secret = c.shared_secret,
                          !.identity_secret = c.identity_secret]
  /\ lg' = [lgIdle EXCEPT !.pc = "rsa", !.by = o,
                          !.calls = lg.calls + (IF o = "caller" THEN 1 ELSE 0),
                          !.relogins = lg.relogins + (IF o = "poller" THEN 1 ELSE 0),
                          !.keyRequests = 1, !.keyFetches = 1]

\* A _get_trade_offers that swallows the failure of its re-login and fetches
\* again.
LoginResumeSwallows(f) ==
  /\ lg' = f
  /\ IF f.by = "poller" /\ f.pc \in {"done", "failed"}
       THEN /\ fetch' = [fetch EXCEPT !.pc = "request", !.depth = @ + 1]
            /\ UNCHANGED poll
       ELSE UNCHANGED <<fetch, poll>>

\* The coroutine awaiting login() goes on in the same step: the caller sees
\* the result; _get_trade_offers calls itself again (line 361) or lets the
\* exception out of the poller task.
LoginResume(f) ==
  /\ lg' = f
  /\ IF f.by = "poller" /\ f.pc = "done"
       THEN /\ fetch' = [fetch EXCEPT !.pc = "request", !.depth = @ + 1]
            /\ UNCHANGED poll
       ELSE IF f.by = "poller" /\ f.pc = "failed"
         THEN /\ fetch' = [fetch EXCEPT !.pc = "raised"]
              /\ poll' = [pollNone EXCEPT !.pc = "dead", !.err = f.err,
                                          !.cause = "relogin"]
         ELSE UNCHANGED <<fetch, poll>>

\* login() raises e: the locals of its frames are gone.
LoginFailIn(f, e) ==
  [f EXCEPT !.pc = "failed", !.err = e, !.origin = e,
            !.current_repetitions = 0,
            !.login_response = NoResponse, !.url = 0,
            !.rsa_timestamp = 0, !.submitted = NoSubmission, !.used = {},
            !.obtained = None]

LoginFail(e) == LoginFailIn(lg, e)

\* The same, for an exception e that an except clause on its way out of
\* login() replaces by another.
LoginFailAs(e, replaced) == [LoginFail(replaced) EXCEPT !.origin = e]

\* An exception inside _send_login's try block, which a nested
\* _send_login_request runs in, leaves as HTTPException.
Wrapped(e) == IF lg.depth > 0 THEN "HTTPException" ELSE e

\* A test that lets one more repetition through.
MayRepeatInclusive(current_repetitions) == current_repetitions <= maximum_repetitions

\* if current_repetitions < maximum_repetitions
MayRepeat(current_repetitions) == current_repetitions < maximum_repetitions

\* twofactorcode: self._one_time_code or ''
CodeOrEmpty(code) == IF Truthy(code) THEN code ELSE ""

\* _send_login_request once the key fetch has returned its n-th key: the
\* password is encrypted and _send_login posts dologin with that key's
\* timestamp and the code the client holds.
SubmitLogin(f, code) ==
  [f EXCEPT !.pc = "dologin", !.submissions = @ + 1,
            !.current_repetitions = 0, !.keyRequests = 0,
            !.rsa_timestamp = @ + 1,
            !.submitted = [rsatimestamp |-> f.rsa_timestamp + 1,
                           twofactorcode |-> CodeOrEmpty(code)]]

\* A two-factor round that posts dologin again with the timestamp it holds.
AfterTwoFactorResubmits(f, code, captcha) ==
  [f EXCEPT !.pc = "dologin", !.depth = @ + 1, !.submissions = @ + 1,
            !.obtained = code,
            !.used = @ \cup {f.submitted.rsatimestamp},
            !.submitted = [rsatimestamp |-> f.rsa_timestamp,
                           twofactorcode |-> CodeOrEmpty(code)],
            !.captchaSeen = @ \/ captcha]

\* _send_login, lines 211-212, on a response that requires two-factor: code()
\* has returned code and _send_login_request awaits a new key fetch.
AfterTwoFactor(f, code, captcha) ==
  [f EXCEPT !.pc = "rsa", !.depth = @ + 1,
            !.current_repetitions = 0,
            !.keyRequests = 1, !.keyFetches = @ + 1,
            !.obtained = code,
            !.used = @ \cup {f.submitted.rsatimestamp},
            !.submitted = NoSubmission,
            !.captchaSeen = @ \/ captcha]

\* The caller calls login().
LoginCall ==
  /\ ~LoginRunning
  /\ lg.calls < MaxLogins
  /\ \E c \in Credentials :
       /\ LoginEnter("caller", c)
       /\ supplied' = c
  /\ UNCHANGED <<events, tasks, poll, fetch, rq, acc, lo>>

\* The getrsakey request of _fetch_rsa_params ends.
LoginKeyAnswer ==
  /\ lg.pc = "rsa"
  /\ \E out \in (Outcomes(http.closed) \ {"data"}) \cup
                  (IF http.closed THEN {} ELSE {"key", "malformed"}) :
       IF out \notin {"key", "malformed"}
         THEN \* except Exception: session.close(); raise LoginError
              /\ http' = [http EXCEPT !.closed = TRUE]
              /\ LoginResume(LoginFailAs(out, Wrapped("LoginError(getrsakey)")))
         ELSE IF out = "key"
           THEN \* the key is returned, the password encrypted, dologin posted
                /\ LoginResume(CountAfterCaptcha(
                     SubmitLogin(lg, http.one_time_code)))
                /\ UNCHANGED http
           ELSE IF MayRepeat(lg.current_repetitions)
             THEN /\ LoginResume(CountAfterCaptcha(
                       [lg EXCEPT !.current_repetitions = @ + 1,
                                  !.keyRequests = @ + 1]))
                  /\ UNCHANGED http
             ELSE /\ LoginResume(LoginFailAs("ValueError(rsa-key)",
                                              Wrapped("ValueError(rsa-key)")))
                  /\ UNCHANGED http
  /\ UNCHANGED <<supplied, events, tasks, rq, acc, lo>>

\* The same without the test of login_response['success'].
AfterLoginResponseUnasserted(r) ==
  IF r.captcha_needed
    THEN /\ LoginResume([LoginFail("LoginError(captcha)") EXCEPT
                           !.captchaSeen = TRUE])
         /\ UNCHANGED http
    ELSE /\ LoginResume([lg EXCEPT !.pc = "home", !.login_response = r,
                                    !.submitted = NoSubmission, !.used = {},
                                    !.obtained = None,
                                    !.invalidSeen = ~r.success])
         /\ UNCHANGED http

\* login(), lines 146-149, once _send_login_request has returned r: the captcha
\* test, then _assert_valid_credentials up to its await of the home page.
AfterLoginResponse(r) ==
  IF r.captcha_needed
    THEN /\ LoginResume([LoginFail("LoginError(captcha)") EXCEPT
                           !.captchaSeen = TRUE])
         /\ UNCHANGED http
    ELSE IF ~r.success
      THEN \* session.close(); raise InvalidCredentials(login_response['message'])
           /\ http' = [http EXCEPT !.closed = TRUE]
           /\ \E message \in {"present", "missing"} :
                LoginResume([LoginFail(IF message = "present"
                                         THEN "InvalidCredentials" ELSE "KeyError")
                               EXCEPT !.invalidSeen = (message = "present")])
      ELSE /\ LoginResume([lg EXCEPT !.pc = "home", !.login_response = r,
                                      !.submitted = NoSubmission, !.used = {},
                                      !.obtained = None])
           /\ UNCHANGED http

\* The dologin request of _send_login ends.
LoginSubmitAnswer ==
  /\ lg.pc = "dologin"
  /\ \/ \E out \in Outcomes(http.closed) \ {"data"} :
          \* except Exception: raise HTTPException
          /\ LoginResume(LoginFailAs(out, "HTTPException"))
          /\ UNCHANGED http
     \/ \E r \in LoginResponses :
          /\ ~http.closed
          /\ IF r.requires_twofactor = "missing"
               THEN \* KeyError, caught by except Exception
                    /\ LoginResume([LoginFailAs("KeyError", "HTTPException") EXCEPT
                                      !.captchaSeen = @ \/ r.captcha_needed])
                    /\ UNCHANGED http
               ELSE IF r.requires_twofactor = "True"
                 THEN \* self._one_time_code = self.code(); _send_login_request()
                      /\ lg.depth < MaxTwoFactor
                      /\ \E code \in Codes :
                           /\ http' = [http EXCEPT !.one_time_code = code]
                           /\ LoginResume(CountAfterCaptcha(
                                AfterTwoFactor(lg, code, r.captcha_needed)))
                 ELSE AfterLoginResponse(r)
  /\ UNCHANGED <<supplied, events, tasks, rq, acc, lo>>

\* A login() that establishes the session without dispatching 'login'.
EstablishedSilently(f) ==
  /\ LoginResume([f EXCEPT !.pc = "profile", !.redirected = TRUE])
  /\ UNCHANGED events

\* login(), lines 152-154: the session is established, 'login' dispatched and
\* fetch_profile's request awaited.
Established(f) ==
  /\ LoginResume([f EXCEPT !.pc = "profile", !.redirected = TRUE,
                            !.dispatched = @ + 1])
  /\ events' = Append(events, "login")

\* A login() that sets _logged_in and dispatches 'login' before its redirect
\* POSTs.
PerformRedirectsEstablishedFirst(h, f) ==
  IF ~f.login_response.has_params
    THEN /\ http' = h
         /\ LoginResume(LoginFailIn(f, "HTTPException"))
         /\ UNCHANGED events
    ELSE IF f.login_response.n_urls = 0
      THEN /\ http' = [h EXCEPT !.logged_in = TRUE]
           /\ Established(f)
      ELSE /\ http' = [h EXCEPT !.logged_in = TRUE]
           /\ LoginResume([f EXCEPT !.pc = "redirect", !.url = 1,
                                     !.dispatched = @ + 1])
           /\ events' = Append(events, "login")

\* _perform_redirects up to its first await, in the frame f of a login() that
\* has just assigned session_id.
PerformRedirects(h, f) ==
  IF ~f.login_response.has_params
    THEN /\ http' = h
         /\ LoginResume(LoginFailIn(f, "HTTPException"))
         /\ UNCHANGED events
    ELSE IF f.login_response.n_urls = 0
      THEN /\ http' = [h EXCEPT !.logged_in = TRUE]
           /\ Established(f)
      ELSE /\ http' = h
           /\ LoginResume([f EXCEPT !.pc = "redirect", !.url = 1])
           /\ UNCHANGED events

\* _assert_valid_credentials: the home page arrives (session.get, home.text)
\* and is searched for g_sessionID.
LoginHomeAnswer ==
  /\ lg.pc = "home"
  /\ \E out \in IF http.closed THEN {"RuntimeError"}
                  ELSE {"page", "no token", "ClientOSError"} :
       IF out \in {"RuntimeError", "ClientOSError"}
         THEN /\ LoginResume(LoginFail(out))
              /\ UNCHANGED <<http, events>>
         ELSE IF out = "no token"
           THEN \* re.search returns None: None.group raises
                /\ LoginResume(LoginFail("AttributeError"))
                /\ UNCHANGED <<http, events>>
           ELSE \E sid \in Tokens :
                  PerformRedirects([http EXCEPT !.session_id = sid],
                                   [lg EXCEPT !.sid_set = TRUE])
  /\ UNCHANGED <<supplied, tasks, rq, acc, lo>>

\* One POST of _perform_redirects ends.
LoginRedirectAnswer ==
  /\ lg.pc = "redirect"
  /\ \E out \in Outcomes(http.closed) :
       IF out # "data"
         THEN /\ LoginResume(LoginFail(out))
              /\ UNCHANGED <<http, events>>
         ELSE IF lg.url < lg.login_response.n_urls
           THEN /\ LoginResume([lg EXCEPT !.url = @ + 1, !.posts = @ + 1])
                /\ UNCHANGED <<http, events>>
           ELSE /\ http' = [http EXCEPT !.logged_in = TRUE]
                /\ Established([lg EXCEPT !.posts = @ + 1])
  /\ UNCHANGED <<supplied, tasks, rq, acc, lo>>

\* fetch_profile's request ends; then ClientUser, ConfirmationManager and
\* create_task.
LoginProfileAnswer ==
  /\ lg.pc = "profile"
  /\ \E out \in Outcomes(http.closed) \cup {"no players"} :
       IF out # "data"
         THEN /\ LoginResume(LoginFail(IF out = "no players" THEN "IndexError" ELSE out))
              /\ UNCHANGED <<http, tasks>>
         ELSE /\ http' = [http EXCEPT !.user = TRUE, !.confirmation_manager = TRUE]
              /\ tasks' = tasks + 1
              /\ LoginResume([lgIdle EXCEPT !.pc = "done", !.by = lg.by,
                                             !.calls = lg.calls,
                                             !.relogins = lg.relogins,
                                             !.sid_set = lg.sid_set,
                                             !.redirected = lg.redirected,
                                             !.dispatched = lg.dispatched,
                                             !.created = lg.created + 1])
  /\ UNCHANGED <<supplied, events, rq, acc, lo>>

\* The steps of a login() call in progress.
LoginStep ==
  \/ LoginKeyAnswer
  \/ LoginSubmitAnswer
  \/ LoginHomeAnswer
  \/ LoginRedirectAnswer
  \/ LoginProfileAnswer

LoginNext == LoginCall \/ LoginStep

\* ------------------------------------------------- trade poller: actions
\* _poll_trades calls _get_trade_offers, which awaits its request.
FetchEnter == [fetchIdle EXCEPT !.pc = "request"]

\* The background task login() creates at line 157 runs the trade poller.
PollerTaskCreated == tasks > 0

\* _poll_trades is entered and awaits its first fetch.
PollStart ==
  /\ poll.pc = "none"
  /\ PollerTaskCreated
  /\ poll' = [pollNone EXCEPT !.pc = "first_fetch"]
  /\ fetch' = FetchEnter
  /\ UNCHANGED <<http, supplied, events, tasks, lg, rq, acc, lo>>

\* A _poll_trades that is suspended between the fetch and the comparison.
PollReceiveSuspends(v) ==
  poll' = [poll EXCEPT !.pc = IF poll.pc = "first_fetch" THEN "first_store"
                                                         ELSE "diff"]

\* _get_trade_offers has returned v to _poll_trades: the first value is kept
\* (line 335); a later one is compared with the stored one (lines 339-345).
\* Then the poller sleeps.
PollReceive(v) ==
  IF poll.pc = "first_fetch"
    THEN poll' = [poll EXCEPT !.pc = "first_sleep", !.trades_cache = v]
    ELSE LET d == PollDiff(poll.trades_cache, v) IN
         poll' = [poll EXCEPT
                    !.pc = IF d.raised THEN "dead" ELSE "sleep",
                    !.err = IF d.raised THEN "TypeError" ELSE @,
                    !.cause = IF d.raised THEN "diff" ELSE @,
                    !.trades_cache = d.cache,
                    !.diffed = TRUE,
                    !.A = poll.trades_cache,
                    !.B = v,
                    !.out = d.out]

\* The request of _get_trade_offers ends with data: the innermost call
\* returns offers['response']; every call above it returns None.
FetchData ==
  /\ fetch.pc = "request"
  /\ ~http.closed
  /\ \E s \in Dicts :
       LET v == IF fetch.depth = 0 THEN Dict(s) ELSE NoneValue IN
       /\ fetch' = [fetch EXCEPT !.pc = "returned", !.got = Dict(s), !.ret = v]
       /\ PollReceive(v)
  /\ events' = events \o [i \in 1..Len(poll'.out) |-> <<"trade_receive", poll'.out[i]>>]
  /\ UNCHANGED <<http, supplied, tasks, lg, rq, acc, lo>>

\* except (ClientOSError, ServerDisconnectedError): await _get_trade_offers()
FetchDisconnected ==
  /\ fetch.pc = "request"
  /\ ~http.closed
  /\ fetch.depth < MaxDepth
  /\ fetch' = [fetch EXCEPT !.depth = @ + 1]
  /\ UNCHANGED <<http, supplied, events, tasks, lg, poll, rq, acc, lo>>

\* except ValueError: await self.login(username, password, api_key,
\* shared_secret), which leaves identity_secret at its default.
FetchInvalidated ==
  /\ fetch.pc = "request"
  /\ ~http.closed
  /\ ~LoginRunning
  /\ fetch.depth < MaxDepth
  /\ lg.relogins < MaxRelogins
  /\ LoginEnter("poller",
                [username |-> http.username, password |-> http.password,
                 api_key |-> http.api_key, shared_secret |-> http.shared_secret,
                 identity_secret |-> None])
  /\ fetch' = [fetch EXCEPT !.pc = "login", !.relogged = TRUE]
  /\ UNCHANGED <<supplied, events, tasks, poll, rq, acc, lo>>

\* Any other exception of request() leaves _get_trade_offers and the task.
FetchRaises ==
  /\ fetch.pc = "request"
  /\ \E e \in Outcomes(http.closed) \ {"data", "ValueError", "ClientOSError"} :
       /\ fetch' = [fetch EXCEPT !.pc = "raised"]
       /\ poll' = [pollNone EXCEPT !.pc = "dead", !.err = e, !.cause = "fetch"]
  /\ UNCHANGED <<http, supplied, events, tasks, lg, rq, acc, lo>>

\* asyncio.sleep(5) returns and the next fetch is awaited.
PollWake ==
  /\ poll.pc \in {"first_sleep", "sleep"}
  /\ poll' = [pollNone EXCEPT !.pc = "fetch", !.trades_cache = poll.trades_cache]
  /\ fetch' = FetchEnter
  /\ UNCHANGED <<http, supplied, events, tasks, lg, rq, acc, lo>>

\* The task is cancelled at one of its awaits: CancelledError is raised there
\* and leaves every frame of the task (a BaseException since Python 3.8).
PollCancel ==
  /\ poll.pc \in {"first_fetch", "first_sleep", "fetch", "sleep"}
  /\ poll' = [pollNone EXCEPT !.pc = "dead", !.err = "CancelledError",
                              !.cause = "cancelled"]
  /\ fetch' = IF fetch.pc \in {"request", "login"}
                THEN [fetch EXCEPT !.pc = "raised"] ELSE fetch
  /\ lg' = IF fetch.pc = "login"
             THEN [lg EXCEPT !.pc = "failed", !.err = "CancelledError"] ELSE lg
  /\ UNCHANGED <<http, supplied, events, tasks, rq, acc, lo>>

PollNext ==
  \/ PollStart
  \/ FetchData
  \/ FetchDisconnected
  \/ FetchInvalidated
  \/ FetchRaises
  \/ PollWake
  \/ PollCancel

\* ------------------------------------------------------ accept_user_trade
accIdle ==
  [pc |-> "idle", calls |-> 0, trade_id |-> None, needs |-> FALSE,
   slept |-> 0, lookups |-> 0, confirms |-> 0, err |-> None]

AccRunning == acc.pc \in {"accept", "sleep", "lookup", "confirm"}

\* The same without the test of identity_secret.
AfterAcceptUnchecked(needs, secret) ==
  IF needs THEN [pc |-> "sleep", err |-> None] ELSE [pc |-> "returned", err |-> None]

\* Lines 387-403 on the accept response, up to the next await.
AfterAccept(needs, secret) ==
  IF needs
    THEN IF Truthy(secret)
           THEN [pc |-> "sleep", err |-> None]
           ELSE [pc |-> "raised", err |-> "ClientException(identity_secret)"]
    ELSE [pc |-> "returned", err |-> None]

\* The caller calls accept_user_trade; the accept POST is awaited.
AcceptCall ==
  /\ ~AccRunning
  /\ acc.calls < MaxCalls
  /\ \E t \in Ids :
       acc' = [accIdle EXCEPT !.pc = "accept", !.calls = acc.calls + 1,
                              !.trade_id = t]
  /\ UNCHANGED <<http, supplied, events, tasks, lg, poll, fetch, rq, lo>>

\* The accept POST ends.
AcceptAnswer ==
  /\ acc.pc = "accept"
  /\ \E out \in Outcomes(http.closed), needs \in BOOLEAN :
       IF out # "data"
         THEN acc' = [acc EXCEPT !.pc = "raised", !.err = out]
         ELSE LET r == AfterAccept(needs, http.identity_secret) IN
              acc' = [acc EXCEPT !.pc = r.pc, !.err = r.err, !.needs = needs]
  /\ UNCHANGED <<http, supplied, events, tasks, lg, poll, fetch, rq, lo>>

\* asyncio.sleep(2) returns; the loop for tries in range(3) is entered and
\* get_trade_confirmation awaited.
AcceptWake ==
  /\ acc.pc = "sleep"
  /\ acc' = IF ConfirmTries = 0
              THEN [acc EXCEPT !.pc = "raised", !.slept = 2,
                               !.err = "ClientException(no confirmation)"]
              ELSE IF ~http.confirmation_manager
                THEN [acc EXCEPT !.pc = "raised", !.slept = 2,
                                 !.err = "AttributeError"]
                ELSE [acc EXCEPT !.pc = "lookup", !.slept = 2, !.lookups = @ + 1]
  /\ UNCHANGED <<http, supplied, events, tasks, lg, poll, fetch, rq, lo>>

\* get_trade_confirmation ends: with a confirmation, whose confirm() is
\* awaited, or with an exception, which leaves the call.
AcceptLookupAnswer ==
  /\ acc.pc = "lookup"
  /\ \E out \in {"conf", "SteamAuthenticatorError", "HTTPException"} :
       acc' = IF out = "conf"
                THEN [acc EXCEPT !.pc = "confirm", !.confirms = @ + 1]
                ELSE IF out = "SteamAuthenticatorError"
                  THEN [acc EXCEPT !.pc = "raised",
                                   !.err = "SteamAuthenticatorError(lookup)"]
                  ELSE [acc EXCEPT !.pc = "raised", !.err = out]
  /\ UNCHANGED <<http, supplied, events, tasks, lg, poll, fetch, rq, lo>>

\* conf.confirm() ends: a dict returns the confirmation (line 397), anything
\* else raises SteamAuthenticatorError (line 399), in the first pass of the
\* loop as in any other.
AcceptConfirmAnswer ==
  /\ acc.pc = "confirm"
  /\ \E out \in {"dict", "text", "HTTPException"} :
       acc' = IF out = "dict"
                THEN [acc EXCEPT !.pc = "returned"]
                ELSE IF out = "text"
                  THEN [acc EXCEPT !.pc = "raised",
                                   !.err = "SteamAuthenticatorError(confirm)"]
                  ELSE [acc EXCEPT !.pc = "raised", !.err = out]
  /\ UNCHANGED <<http, supplied, events, tasks, lg, poll, fetch, rq, lo>>

AcceptNext ==
  \/ AcceptCall
  \/ AcceptAnswer
  \/ AcceptWake
  \/ AcceptLookupAnswer
  \/ AcceptConfirmAnswer

\* ----------------------------------------------------------------- logout
loIdle == [pc |-> "idle", calls |-> 0, dispatched |-> 0, err |-> None]

\* A teardown that leaves _logged_in as it was.
LogoutFinishKeepsFlag(h, ev) ==
  [http |-> h, events |-> Append(ev, "logout")]

\* logout(), lines 163-164, once session.close() has returned.
LogoutFinish(h, ev) ==
  [http |-> [h EXCEPT !.logged_in = FALSE], events |-> Append(ev, "logout")]

\* The caller calls logout(); session.get of the logout page is awaited.
LogoutCall ==
  /\ lo.pc \in {"idle", "done", "raised"}
  /\ lo.calls < MaxLogouts
  /\ lo' = [loIdle EXCEPT !.pc = "get", !.calls = lo.calls + 1]
  /\ UNCHANGED <<http, supplied, events, tasks, lg, poll, fetch, rq, acc>>

\* session.get ends: whatever the status, session.close() is called next and
\* awaited; a transport error, or a session already closed, leaves logout().
LogoutGetAnswer ==
  /\ lo.pc = "get"
  /\ \E out \in IF http.closed THEN {"RuntimeError"}
                  ELSE {"response", "ClientOSError"} :
       IF out = "response"
         THEN /\ http' = [http EXCEPT !.closed = TRUE]
              /\ lo' = [lo EXCEPT !.pc = "close"]
         ELSE /\ lo' = [lo EXCEPT !.pc = "raised", !.err = out]
              /\ UNCHANGED http
  /\ UNCHANGED <<supplied, events, tasks, lg, poll, fetch, rq, acc>>

\* session.close() returns: the flag is cleared and 'logout' dispatched.
LogoutCloseAnswer ==
  /\ lo.pc = "close"
  /\ LET r == LogoutFinish(http, events) IN
       /\ http' = r.http
       /\ events' = r.events
  /\ lo' = [lo EXCEPT !.pc = "done", !.dispatched = @ + 1]
  /\ UNCHANGED <<supplied, tasks, lg, poll, fetch, rq, acc>>

LogoutNext == LogoutCall \/ LogoutGetAnswer \/ LogoutCloseAnswer

\* --------------------------------------------------------- specifications
NoCredentials ==
  [username |-> None, password |-> None, api_key |-> None,
   shared_secret |-> None, identity_secret |-> None]

\* HTTPClient.__init__
httpInit ==
  [username |-> None, password |-> None, api_key |-> None,
   shared_secret |-> None, identity_secret |-> None,
   one_time_code |-> None, session_id |-> None, logged_in |-> FALSE,
   closed |-> FALSE, user |-> FALSE, confirmation_manager |-> FALSE]

Init ==
  /\ http = httpInit
  /\ supplied = NoCredentials
  /\ events = <<>>
  /\ tasks = 0
  /\ lg = lgIdle
  /\ poll = pollNone
  /\ fetch = fetchIdle
  /\ rq = rqIdle
  /\ acc = accIdle
  /\ lo = loIdle

\* A client whose login() has completed.
InitLoggedIn ==
  /\ \E c \in Credentials, sid \in Tokens, code \in Codes \cup {None} :
       /\ http = [username |-> c.username, password |-> c.password,
                  api_key |-> c.api_key, shared_secret |-> c.shared_secret,
                  identity_secret |-> c.identity_secret,
                  one_time_code |-> code, session_id |-> sid,
                  logged_in |-> TRUE, closed |-> FALSE, user |-> TRUE,
                  confirmation_manager |-> TRUE]
       /\ supplied = c
  /\ events = <<"login">>
  /\ tasks = 1
  /\ lg = [lgIdle EXCEPT !.pc = "done", !.by = "caller", !.calls = 1,
                         !.sid_set = TRUE, !.redirected = TRUE,
                         !.dispatched = 1, !.created = 1]
  /\ poll = pollNone
  /\ fetch = fetchIdle
  /\ rq = rqIdle
  /\ acc = accIdle
  /\ lo = loIdle

Next == PollNext \/ LoginStep

\* The poller task of a logged-in client, with its re-logins.
Spec == InitLoggedIn /\ [][Next]_vars

\* login() calls by the caller, from the client's construction.
SpecLogin == Init /\ [][LoginNext]_vars

\* One request() call.
SpecRequest == Init /\ [][RequestNext]_vars

\* accept_user_trade calls on a logged-in client.
SpecAccept == InitLoggedIn /\ [][AcceptNext]_vars

\* login() and logout() calls by the caller, from the client's construction.
SpecLogout == Init /\ [][LoginNext \/ LogoutNext]_vars

\* ------------------------------------------------------------------ claims
\* The offer ids present in both snapshots with differing values.
Changed(A, B) == {k \in Keys(A) \cap Keys(B) : Lookup(A, k) # Lookup(B, k)}

\* The poller has just compared two snapshots, A stored and B fetched.
Compared == poll.diffed /\ ~poll.A.none /\ ~poll.B.none

\* C1: in a poller iteration that compares the stored snapshot A with the
\* fetched snapshot B, the ids trade_receive is dispatched for are exactly the
\* keys of both A and B whose values differ.
C1_DispatchedExactlyChanged ==
  Compared => {poll.out[i][1] : i \in DOMAIN poll.out} = Changed(poll.A, poll.B)

\* C2: when exactly one offer of two snapshots with the same offers changes its
\* state, the iteration dispatches exactly one trade_receive, and it carries
\* that offer's new state.
C2_OneChangeOneDispatch ==
  (Compared /\ Keys(poll.A) = Keys(poll.B)
     /\ Cardinality(Changed(poll.A, poll.B)) = 1)
    => /\ Len(poll.out) = 1
       /\ \A k \in Changed(poll.A, poll.B) :
            poll.out[1] = <<k, Lookup(poll.B, k)>>

\* C3: the poller never terminates on its own: it ends only by cancellation,
\* by a failed re-login or by a fetch whose request fails, never on the
\* snapshots the remote side returns.
C3_PollerNeverStopsOnSnapshots ==
  (poll.pc = "dead" /\ ~poll.A.none /\ ~poll.B.none)
    => poll.cause \in {"cancelled", "relogin", "fetch"}

\* C4: a fetch that was retried, after a disconnection or a successful
\* re-login, hands the poller the snapshot the retried request returned, and
\* the poller goes on.
C4_RetriedFetchDelivers ==
  (fetch.pc = "returned" /\ fetch.depth > 0)
    => fetch.ret = fetch.got /\ poll.pc # "dead"

\* The five credentials as the client holds them.
Held ==
  [username |-> http.username, password |-> http.password,
   api_key |-> http.api_key, shared_secret |-> http.shared_secret,
   identity_secret |-> http.identity_secret]

\* C5: after the poller's automatic re-login the five credentials are those
\* the caller supplied to the original login.
C5_ReloginKeepsCredentials ==
  (lg.by = "poller" /\ lg.pc = "done") => Held = supplied

\* One _fetch_rsa_params call with the default counter has failed because
\* every answer to it was malformed.
KeyFetchFailed == lg.pc = "failed" /\ lg.origin = "ValueError(rsa-key)"

\* C6 as claimed: the key fetch fails after 5 key requests and a 6th is never
\* issued.
C6_FailsAfterFiveRequests ==
  /\ lg.keyRequests <= 5
  /\ KeyFetchFailed => lg.keyRequests = 5

\* C6, amended: the key fetch fails after 6 key requests, the first and 5
\* repetitions, and a 7th is never issued.
C6_FailsAfterSixRequests ==
  /\ lg.keyRequests <= 6
  /\ KeyFetchFailed => lg.keyRequests = 6

C6_Witness == KeyFetchFailed /\ lg.keyRequests = 6 /\ lg.depth = 0

\* Every answer of the sequence is a 500 or a 502.
ServerErrors(seen) ==
  \A i \in DOMAIN seen :
    seen[i].kind = "http" /\ ~seen[i].denied /\ seen[i].status \in {500, 502}

Front(seen) == SubSeq(seen, 1, Len(seen) - 1)

\* C7: in one request() call answered only by 500 and 502, attempt k is
\* followed by a sleep of 1 + 2k seconds, at most 5 attempts are made and
\* HTTPException is raised only after the 5th; a 2xx answer after only 500 and
\* 502 answers makes request() return its data.
C7_LinearBackoffFiveAttempts ==
  /\ rq.attempts <= 5
  /\ \A k \in DOMAIN rq.sleeps : rq.sleeps[k] = 1 + 2 * (k - 1)
  /\ ServerErrors(rq.seen) =>
       /\ Len(rq.sleeps) = rq.attempts
       /\ rq.pc = "raised" =>
            /\ rq.attempts = 5
            /\ rq.result = "HTTPException"
            /\ rq.sleeps = <<1, 3, 5, 7, 9>>
  /\ (/\ rq.seen # <<>>
      /\ ServerErrors(Front(rq.seen))
      /\ rq.seen[Len(rq.seen)].kind = "http"
      /\ ~rq.seen[Len(rq.seen)].denied
      /\ rq.seen[Len(rq.seen)].status = 200)
       => rq.pc = "returned" /\ rq.result = "data"

C7_Witness ==
  /\ rq.pc = "raised"
  /\ ServerErrors(rq.seen)
  /\ rq.attempts = 5

\* C8: once a dologin response contained captcha_needed, login() has failed
\* with the captcha error and no key request or login submission was issued
\* after that response.
C8_CaptchaFailsAtOnce ==
  lg.captchaSeen =>
    /\ lg.pc = "failed"
    /\ lg.err = "LoginError(captcha)"
    /\ lg.afterCaptcha = 0

\* C9: accept_user_trade fails because a confirm attempt failed only after 3
\* attempts.
C9_ConfirmRetriedThreeTimes ==
  (acc.pc = "raised" /\ acc.err = "SteamAuthenticatorError(confirm)")
    => acc.confirms = 3

\* C10: when the accept response needs a mobile confirmation and
\* identity_secret is not set, the call has failed with the
\* identity_secret error, with no confirmation looked up and none confirmed.
C10_NoSecretNoLookup ==
  (acc.needs /\ ~Truthy(http.identity_secret))
    => /\ acc.pc = "raised"
       /\ acc.err = "ClientException(identity_secret)"
       /\ acc.lookups = 0
       /\ acc.confirms = 0

C10_Witness ==
  /\ acc.needs
  /\ ~Truthy(http.identity_secret)
  /\ acc.pc = "raised"
  /\ acc.lookups = 0

C12_FreshChallengePerSubmission ==
  lg.pc = "dologin" =>
    /\ lg.submitted.rsatimestamp = lg.rsa_timestamp
    /\ \A t \in lg.used : t < lg.submitted.rsatimestamp
    /\ lg.used # {} => lg.submitted.twofactorcode = lg.obtained

\* The submission that follows a two-factor response is in flight.
C12_Witness ==
  /\ lg.pc = "dologin"
  /\ lg.used = {1}
  /\ lg.submitted.rsatimestamp = 2
  /\ lg.submitted.twofactorcode \in Codes

\* C13: a login() assigns session_id only after its redirect POSTs have all
\* completed.
C13_RedirectsBeforeSessionId ==
  lg.sid_set => lg.redirected

\* The failures request() raises for a status that is not 2xx, 500 or 502.
TypedFailures == {"TooManyRequests", "Forbidden", "NotFound", "HTTPException"}

\* C14: a typed failure of a request inside login() reaches the caller of
\* login() as that failure.
C14_TypedFailureReachesCaller ==
  (lg.pc = "failed" /\ lg.origin \in TypedFailures) => lg.err = lg.origin

\* C15: once a response without a captcha or two-factor requirement said
\* success false, login() has failed with InvalidCredentials, having fetched
\* no home page, posted no redirect and dispatched no 'login'.
C15_InvalidCredentialsTerminal ==
  lg.invalidSeen =>
    /\ lg.pc = "failed"
    /\ lg.err = "InvalidCredentials"
    /\ ~lg.sid_set
    /\ lg.posts = 0
    /\ lg.dispatched = 0

C15_Witness ==
  /\ lg.invalidSeen
  /\ lg.pc = "failed"
  /\ lg.submissions = 1
  /\ http.closed

\* The poller tasks created and not ended.
RunningPollers == tasks - (IF poll.pc = "dead" THEN 1 ELSE 0)

\* C16: a client never has more than one poller task running.
C16_AtMostOnePollerTask == RunningPollers <= 1

\* C17: when the poller's re-login has failed, the poller task has ended with
\* the failure of that login and its fetch was not retried.
C17_FailedReloginStopsPoller ==
  (lg.by = "poller" /\ lg.pc = "failed" /\ lg.err # "CancelledError")
    => /\ poll.pc = "dead"
       /\ poll.err = lg.err
       /\ fetch.pc = "raised"

C17_Witness ==
  /\ lg.by = "poller"
  /\ lg.pc = "failed"
  /\ poll.pc = "dead"
  /\ poll.cause = "relogin"

\* The number of 'logout' notifications dispatched.
Logouts == Cardinality({i \in DOMAIN events : events[i] = "logout"})

\* C18: once logout() has completed, logged_in is false, the transport is
\* closed and exactly one 'logout' was dispatched; 'logout' is never
\* dispatched before the logout request was answered and the transport closed.
C18_LogoutTearsDown ==
  /\ lo.pc = "done" =>
       /\ ~http.logged_in
       /\ http.closed
       /\ lo.dispatched = 1
       /\ Logouts = 1
  /\ Logouts > 0 => http.closed
  /\ lo.pc \in {"get", "close"} => lo.dispatched = 0

C18_Witness ==
  /\ lo.pc = "done"
  /\ lg.pc = "done"
  /\ events = <<"login", "logout">>
  /\ ~http.logged_in

\* C19: once an iteration has compared, the stored snapshot equals, as a
\* mapping, the snapshot its fetch received.
C19_StoredIsFetched ==
  poll.diffed => PyEq(poll.trades_cache, fetch.got)

\* C20: the poller never rests between the return of its fetch and the swap:
\* whenever the fetch has returned, the comparison has run and the poller
\* sleeps or has ended; whatever was dispatched had its snapshot stored, and a
\* stored snapshot had the changes of its ids dispatched.
C20_DiffAndSwapAtomic ==
  /\ fetch.pc = "returned" => poll.pc \in {"first_sleep", "sleep", "dead"}
  /\ poll.diffed =>
       /\ poll.out # <<>> => PyEq(poll.trades_cache, poll.B)
       /\ (poll.pc = "sleep" /\ ~PyEq(poll.A, poll.B)) =>
            /\ PyEq(poll.trades_cache, poll.B)
            /\ {poll.out[i][1] : i \in DOMAIN poll.out} = Changed(poll.A, poll.B)

C20_Witness ==
  /\ poll.diffed
  /\ poll.pc = "sleep"
  /\ fetch.pc = "returned"
  /\ ~PyEq(poll.A, poll.B)
  /\ PyEq(poll.trades_cache, poll.B)

\* C21: a login() that has failed before its redirects completed, on a client
\* no earlier login() established a session on, has dispatched no 'login', left
\* logged_in false and created no task; and 'login' is dispatched only once
\* every redirect POST of the response has succeeded.
C21_FailedLoginLeavesNoSession ==
  /\ (lg.pc = "failed" /\ ~lg.redirected /\ Len(events) = lg.dispatched) =>
       /\ events = <<>>
       /\ ~http.logged_in
       /\ lg.created = 0
       /\ tasks = 0
  /\ lg.dispatched > 0 => lg.redirected
  /\ lg.pc = "profile" =>
       /\ lg.login_response.has_params
       /\ lg.posts = lg.login_response.n_urls

\* A first login() has failed in its second redirect POST.
C21_Witness ==
  /\ lg.pc = "failed"
  /\ lg.calls = 1
  /\ lg.sid_set
  /\ lg.posts = 1
  /\ ~lg.redirected
  /\ events = <<>>
  /\ ~http.logged_in

====
